---- MODULE Spec2Model ----
(***************************************************************************)
(* Model of the two Flask front ends of the repository:                    *)
(*   app.py     the code-generation service (POST /generate_code)          *)
(*   app_v2.py  the news service            (POST /generate_news)          *)
(* Each is a module import (credential check, LLM, agents) followed by a   *)
(* threaded HTTP server whose handlers build a crew of tasks and hand it   *)
(* to the orchestration library (crew.kickoff).                            *)
(*                                                                         *)
(* Texts (stage outputs, exception messages, error strings) are sequences  *)
(* of one-character strings.  Python's None is the string NONE where the   *)
(* other values are strings, and the empty sequence where the other value  *)
(* is a one-element sequence.                                              *)
(***************************************************************************)
EXTENDS Integers, Sequences, FiniteSets, TLC

\* ------------------------------------------------------------------ bounds
NumReqs == 1      \* request slots served at the same time (a slot is reused)
MaxLen == 3       \* longest result text of StatsSpec
MaxFrags == 3     \* most fragments of an exception message of ErrorSpec
NumConc == 2      \* requests in flight at a time in ConcSpec

NONE == "None"

Reqs == 1..NumReqs
ConcReqs == 1..NumConc

\* ------------------------------------------------------------------- texts
Alphabet == {"a", " ", "\n"}

RECURSIVE TextsUpTo(_)
TextsUpTo(n) ==
    IF n = 0 THEN {<< >>}
    ELSE LET shorter == TextsUpTo(n - 1)
         IN  shorter \cup {Append(t, c) : t \in {s \in shorter : Len(s) = n - 1}, c \in Alphabet}

Texts == TextsUpTo(MaxLen)

\* what a stage of the executor may output in Spec: nothing, or "a b\nc"
StageOutputs == { << >>, <<"a", " ", "b", "\n", "c">> }

\* str(e) of the exceptions the library may raise (construction, execution)
ExcMsgs ==
    { <<"t","i","m","e","o","u","t">>,
      <<"a","p","i"," ","k","e","y"," ","i","n","v","a","l","i","d">>,
      <<"M","o","d","e","l"," ","o","v","e","r","l","o","a","d","e","d">>,
      <<"M","o","d","e","l"," ","A","P","I"," ","d","o","w","n">> }

AttrErrNone ==
    <<"'","N","o","n","e","T","y","p","e","'"," ","o","b","j","e","c","t"," ","h","a","s"," ",
      "n","o"," ","a","t","t","r","i","b","u","t","e"," ","'","g","e","t","'">>
AttrErrList ==
    <<"'","l","i","s","t","'"," ","o","b","j","e","c","t"," ","h","a","s"," ",
      "n","o"," ","a","t","t","r","i","b","u","t","e"," ","'","g","e","t","'">>
UnsupportedMedia ==
    <<"4","1","5"," ","U","n","s","u","p","p","o","r","t","e","d"," ","M","e","d","i","a"," ","T","y","p","e">>

\* Static message strings of the handlers; each is one piece of text.
MsgDescriptionRequired == <<"Project description is required">>
MsgTopicRequired == <<"Topic is required">>
MsgFailedToGenerate == <<"Failed to generate code: ">>
MsgAgentsNotInitialized ==
    <<"Agents not properly initialized. Please check your API key and try again.">>
MsgFailedToCreateCrew == <<"Failed to create crew. Please try again.">>
MsgApiConnection ==
    <<"API connection failed. Please check your internet connection and API key.">>
MsgModelConfiguration == <<"Model configuration error. Please try again.">>
MsgAnErrorOccurred == <<"An error occurred: ">>

\* --------------------------------------------------------- python helpers
IsSpace(c) == c \in {" ", "\n", "\t"}

\* str.split(): the maximal runs of non-whitespace characters, in order
RECURSIVE SplitFrom(_, _, _)
SplitFrom(s, i, word) ==
    IF i > Len(s)
    THEN IF word = << >> THEN << >> ELSE <<word>>
    ELSE IF IsSpace(s[i])
         THEN IF word = << >> THEN SplitFrom(s, i + 1, << >>)
              ELSE <<word>> \o SplitFrom(s, i + 1, << >>)
         ELSE SplitFrom(s, i + 1, Append(word, s[i]))

split(s) == SplitFrom(s, 1, << >>)

\* str.count(c)
count(s, c) == Cardinality({i \in 1..Len(s) : s[i] = c})

Lower == <<"a","b","c","d","e","f","g","h","i","j","k","l","m",
           "n","o","p","q","r","s","t","u","v","w","x","y","z">>
Upper == <<"A","B","C","D","E","F","G","H","I","J","K","L","M",
           "N","O","P","Q","R","S","T","U","V","W","X","Y","Z">>

UpperChar(c) ==
    IF \E k \in 1..26 : Lower[k] = c
    THEN Upper[CHOOSE k \in 1..26 : Lower[k] = c]
    ELSE c

\* str.upper()
upper(s) == [i \in 1..Len(s) |-> UpperChar(s[i])]

\* needle in s
Contains(s, needle) ==
    \E i \in 0..(Len(s) - Len(needle)) :
        \A j \in 1..Len(needle) : s[i + j] = needle[j]

\* truth value of a python value that is None, a str or a library object
Falsy(v) == v = NONE \/ v = ""

\* ------------------------------------------------------------------ state
VARIABLES
    app,        \* the module that is run: "app" or "app_v2"
    env,        \* GEMINI_API_KEY in the environment (NONE when unset)
    boot,       \* position of the module import
    api_key,    \* module global api_key
    llm,        \* module global llm
    agents,     \* module globals holding the agents, in definition order
    rq,         \* per request slot: the handler's locals and the executor's run
    served      \* the response of the static route answered in this step, if any

vars == <<app, env, boot, api_key, llm, agents, rq, served>>

CodeRoles ==
    <<"Flowchart Generator", "Technology Choice Provider", "System Architecture Designer",
      "Code Generator", "Design & Animation Enhancer", "Code Error Fixer",
      "Code Testing Specialist", "Code Delivery Specialist">>

NewsRoles == <<"Investigative Journalist", "News Writer", "Content Editor", "Final Editor">>

\* the task lists in the order of the tasks= argument of Crew(...)
CodeStages ==
    <<"flowchart", "choice", "architecture", "code_generation",
      "design_enhancement", "error_fixing", "testing", "delivery">>

NewsStages == <<"research", "writing", "cleaning", "merger">>

StagesOf(a) == IF a = "app" THEN CodeStages ELSE NewsStages

NoCalls == [build |-> 0, task |-> 0, kickoff |-> 0]

\* a free request slot
Idle ==
    [pc |-> "idle", body |-> [kind |-> "none"], crew |-> << >>,
     started |-> << >>, completed |-> << >>, earlier |-> {}, last |-> << >>,
     result |-> << >>, exc |-> << >>, resp |-> << >>, calls |-> NoCalls]

\* the credential check, were it to test for None only
KeyMissing_none(k) == k = NONE

\* ---------------------------------------------------------- module import
\* `if not api_key`
KeyMissing(k) == Falsy(k)

Init ==
    /\ app \in {"app", "app_v2"}
    /\ env \in {NONE, "", "key"}
    /\ boot = "start"
    /\ api_key = NONE
    /\ llm = NONE
    /\ agents = << >>
    /\ rq = [r \in Reqs |-> Idle]
    /\ served = << >>

\* api_key = os.getenv(...); if not api_key: raise ValueError
LoadKey ==
    /\ boot = "start"
    /\ api_key' = env
    /\ boot' = IF KeyMissing(env) THEN "failed" ELSE "llm"
    /\ UNCHANGED <<app, env, llm, agents, rq, served>>

\* app.py: llm = LLM(...), an exception ends the import.
\* app_v2.py: get_llm() returns LLM(...), or the fallback dict when that raises;
\* nothing the handlers do depends on which, llm is "set" in both cases.
InitLLM ==
    /\ boot = "llm"
    /\ \E ok \in BOOLEAN :
          IF ok \/ app = "app_v2"
          THEN llm' = "set" /\ boot' = "agents"
          ELSE llm' = llm /\ boot' = "failed"
    /\ UNCHANGED <<app, env, api_key, agents, rq, served>>

\* app.py: the eight Agent(...) globals, in order; an exception at the n+1st
\* ends the import.  app_v2.py: create_agents() returns the four agents, or four
\* None when any Agent(...) raises; the import goes on to app.run either way.
CreateAgents ==
    /\ boot = "agents"
    /\ IF app = "app"
       THEN \E n \in 0..Len(CodeRoles) :
               /\ agents' = SubSeq(CodeRoles, 1, n)
               /\ boot' = IF n = Len(CodeRoles) THEN "serving" ELSE "failed"
       ELSE \E ok \in BOOLEAN :
               /\ agents' = IF ok THEN NewsRoles ELSE [i \in 1..Len(NewsRoles) |-> NONE]
               /\ boot' = "serving"
    /\ UNCHANGED <<app, env, api_key, llm, rq, served>>

\* ------------------------------------------------------------ request body
ABSENT == "<absent>"    \* the key is not in the JSON object

\* POST bodies: no JSON at all, the JSON values null and [], and JSON objects
JsonObjects(primaries, secondaries) ==
    [kind : {"object"}, primary : primaries, secondary : secondaries]

NonObjects == {[kind |-> "nojson"], [kind |-> "null"], [kind |-> "array"]}

CodeBodies ==
    NonObjects \cup JsonObjects({ABSENT, "", "shop"}, {ABSENT, "", "fast"})
               \cup JsonObjects({"blog"}, {ABSENT})

NewsBodies == NonObjects \cup JsonObjects({ABSENT, "", "chips", "tides"}, {ABSENT})

\* request.get_json(): the parsed body.  Without a JSON body it returns None
\* or raises 415, depending on the installed Flask.
get_json(b) ==
    IF b.kind = "nojson"
    THEN {[raised |-> FALSE, data |-> [kind |-> "null"]],
          [raised |-> TRUE, exc |-> UnsupportedMedia]}
    ELSE {[raised |-> FALSE, data |-> b]}

\* data.get(key, ''), the AttributeError of a value that is no dict included
get(data, key) ==
    IF data.kind = "null" THEN [raised |-> TRUE, exc |-> AttrErrNone]
    ELSE IF data.kind = "array" THEN [raised |-> TRUE, exc |-> AttrErrList]
    ELSE [raised |-> FALSE,
          value |-> IF data[key] = ABSENT THEN "" ELSE data[key]]

\* The handler returns response resp: its frame, the crew and the texts of the
\* run die with it.  The slot keeps what an observer of the request has seen.
Answered(s, resp) ==
    [s EXCEPT !.pc = "done", !.resp = Append(@, resp), !.crew = << >>]

\* what crew.kickoff() may do to the handler that called it
Outcomes(out) ==
    {[raised |-> TRUE, exc |-> m] : m \in ExcMsgs}
        \cup {[raised |-> FALSE, result |-> [kind |-> k, raw |-> out]] :
                 k \in {"CrewOutput", "str"}}

\* str(result): the raw text of the final task
str(result) == result.raw

\* `if result`: a library object is true, a str is true unless empty
Truthy(result) == result.kind = "CrewOutput" \/ result.raw /= << >>

\* ------------------------------------------------------- app.py: builder
\* Task(description=f"...{project_description}...{requirements}...", agent=..)
CodeTask(i, project_description, requirements) ==
    [name |-> CodeStages[i],
     agent |-> agents[i],
     inputs |-> IF i <= 2 THEN <<project_description, requirements>>
                ELSE IF i <= 4 THEN <<project_description>>
                ELSE << >>]

\* the builder, were it to leave out the technology choice of a request that
\* states no requirements
create_code_generation_crew_skip(project_description, requirements, fail, msg) ==
    LET tasks == [i \in 1..Len(CodeStages) |->
                     CodeTask(i, project_description, requirements)]
        keep(t) == requirements /= "" \/ t.name /= "choice"
    IN
    IF fail = 0
    THEN [raised |-> FALSE,
          ntasks |-> Len(SelectSeq(tasks, keep)),
          crew |-> [agents |-> agents, tasks |-> SelectSeq(tasks, keep),
                    process |-> "sequential"]]
    ELSE [raised |-> TRUE, exc |-> msg, ntasks |-> fail - 1]

\* the builder, were tasks= to list the testing task before the error fixing task
create_code_generation_crew_swapped(project_description, requirements, fail, msg) ==
    LET at(i) == IF i = 6 THEN 7 ELSE IF i = 7 THEN 6 ELSE i IN
    IF fail = 0
    THEN [raised |-> FALSE,
          ntasks |-> Len(CodeStages),
          crew |-> [agents |-> agents,
                    tasks |-> [i \in 1..Len(CodeStages) |->
                                  CodeTask(at(i), project_description, requirements)],
                    process |-> "sequential"]]
    ELSE [raised |-> TRUE, exc |-> msg, ntasks |-> fail - 1]

\* create_code_generation_crew: eight Task(...) then Crew(...).  `fail` is the
\* constructor call that raises (1..8 a Task, 9 the Crew), 0 when none does.
create_code_generation_crew(project_description, requirements, fail, msg) ==
    IF fail = 0
    THEN [raised |-> FALSE,
          ntasks |-> Len(CodeStages),
          crew |-> [agents |-> agents,
                    tasks |-> [i \in 1..Len(CodeStages) |->
                                  CodeTask(i, project_description, requirements)],
                    process |-> "sequential"]]
    ELSE [raised |-> TRUE, exc |-> msg, ntasks |-> fail - 1]

\* -------------------------------------------------- app.py: generate_code
\* the except branch, were it to answer with a fixed text
code_error_response_static(e) ==
    [status |-> 500, json |-> [success |-> FALSE, error |-> MsgFailedToGenerate]]

\* the except branch, were it to hand out a result field as well
code_error_response_partial(e) ==
    [status |-> 500,
     json |-> [success |-> FALSE, error |-> MsgFailedToGenerate \o e, generated_code |-> e]]

\* the except branch
code_error_response(e) ==
    [status |-> 500, json |-> [success |-> FALSE, error |-> MsgFailedToGenerate \o e]]

\* the statistics, were lines_of_code to count lines instead of newlines
code_stats_lines(result) ==
    [agents_used |-> 8,
     processing_phases |-> <<"Flowchart Generation", "Technology Selection",
                             "Architecture Design", "Code Generation",
                             "Design Enhancement", "Error Fixing", "Testing",
                             "Final Delivery">>,
     word_count |-> IF Truthy(result) THEN Len(split(str(result))) ELSE 0,
     lines_of_code |-> IF Truthy(result) THEN count(str(result), "\n") + 1 ELSE 0,
     processing_time |-> "45-120 seconds"]

code_stats(result) ==
    [agents_used |-> 8,
     processing_phases |-> <<"Flowchart Generation", "Technology Selection",
                             "Architecture Design", "Code Generation",
                             "Design Enhancement", "Error Fixing", "Testing",
                             "Final Delivery">>,
     word_count |-> IF Truthy(result) THEN Len(split(str(result))) ELSE 0,
     lines_of_code |-> IF Truthy(result) THEN count(str(result), "\n") ELSE 0,
     processing_time |-> "45-120 seconds"]

\* the success response, were it to cut the text to its first four characters
code_success_response_cut(result, project_description, requirements) ==
    [status |-> 200,
     json |-> [success |-> TRUE,
               generated_code |-> SubSeq(str(result), 1, IF Len(str(result)) < 4
                                                         THEN Len(str(result)) ELSE 4),
               project_description |-> project_description,
               requirements |-> requirements,
               stats |-> code_stats(result)]]

code_success_response(result, project_description, requirements) ==
    [status |-> 200,
     json |-> [success |-> TRUE,
               generated_code |-> str(result),
               project_description |-> project_description,
               requirements |-> requirements,
               stats |-> code_stats(result)]]

\* generate_code up to the call of crew.kickoff(): the new slot
generate_code_pre(b, gj, fail, msg) ==
    LET s == [Idle EXCEPT !.body = b] IN
    IF gj.raised THEN Answered([s EXCEPT !.exc = <<gj.exc>>], code_error_response(gj.exc))
    ELSE
    LET pd == get(gj.data, "primary") IN
    IF pd.raised THEN Answered([s EXCEPT !.exc = <<pd.exc>>], code_error_response(pd.exc))
    ELSE
    LET project_description == pd.value
        requirements == get(gj.data, "secondary").value
    IN
    IF Falsy(project_description)
    THEN Answered(s, [status |-> 400, json |-> [error |-> MsgDescriptionRequired]])
    ELSE
    LET built == create_code_generation_crew(project_description, requirements, fail, msg)
        t == [s EXCEPT !.calls.build = @ + 1, !.calls.task = @ + built.ntasks]
    IN
    IF built.raised
    THEN Answered([t EXCEPT !.exc = <<built.exc>>], code_error_response(built.exc))
    ELSE [t EXCEPT !.pc = "kickoff", !.crew = <<built.crew>>, !.calls.kickoff = @ + 1]

\* generate_code, were it to keep the result in a module global that every
\* request writes and the response is made from
generate_code_post_global(s, o) ==
    LET others == {q \in DOMAIN rq : rq[q].result /= << >>}
        result == IF others = {} THEN o.result ELSE rq[CHOOSE q \in others : TRUE].result[1]
    IN
    IF o.raised
    THEN Answered([s EXCEPT !.exc = <<o.exc>>], code_error_response(o.exc))
    ELSE Answered([s EXCEPT !.result = <<o.result>>],
                  code_success_response(result,
                                        get(s.body, "primary").value,
                                        get(s.body, "secondary").value))

\* generate_code from the return, or the exception, of crew.kickoff()
generate_code_post(s, o) ==
    IF o.raised
    THEN Answered([s EXCEPT !.exc = <<o.exc>>], code_error_response(o.exc))
    ELSE Answered([s EXCEPT !.result = <<o.result>>],
                  code_success_response(o.result,
                                        get(s.body, "primary").value,
                                        get(s.body, "secondary").value))

\* ----------------------------------------------------- app_v2.py: builder
NewsTask(i, topic) ==
    [name |-> NewsStages[i],
     agent |-> agents[i],
     inputs |-> IF i <= 2 THEN <<topic>> ELSE << >>]

\* create_news_crew: four Task(...) then Crew(...) inside try/except; an
\* exception is printed and None (the empty sequence) is returned.
create_news_crew(topic, fail, msg) ==
    IF fail = 0
    THEN [ntasks |-> Len(NewsStages),
          crew |-> <<[agents |-> agents,
                      tasks |-> [i \in 1..Len(NewsStages) |-> NewsTask(i, topic)],
                      process |-> "sequential"]>>]
    ELSE [ntasks |-> fail - 1, crew |-> << >>]

\* -------------------------------------------------- app_v2.py: generate_news
\* the except branch, were it to test for MODEL before API
news_error_response_model_first(e) ==
    LET error_msg ==
            IF Contains(upper(e), <<"M", "O", "D", "E", "L">>) THEN MsgModelConfiguration
            ELSE IF Contains(upper(e), <<"A", "P", "I">>) THEN MsgApiConnection
            ELSE MsgAnErrorOccurred \o e
    IN  [status |-> 500, json |-> [success |-> FALSE, error |-> error_msg]]

\* the except branch: the message is rewritten by substring tests on its upper case
news_error_response(e) ==
    LET error_msg ==
            IF Contains(upper(e), <<"A", "P", "I">>) THEN MsgApiConnection
            ELSE IF Contains(upper(e), <<"M", "O", "D", "E", "L">>) THEN MsgModelConfiguration
            ELSE MsgAnErrorOccurred \o e
    IN  [status |-> 500, json |-> [success |-> FALSE, error |-> error_msg]]

news_success_response(result) ==
    [status |-> 200, json |-> [success |-> TRUE, article |-> str(result)]]

\* all([journalist_agent, news_writer_agent, sentence_cleaner_agent, merger_agent])
all_agents == \A i \in 1..Len(agents) : ~Falsy(agents[i])

\* generate_news up to the call of crew.kickoff(): the new slot
generate_news_pre(b, gj, fail, msg) ==
    LET s == [Idle EXCEPT !.body = b] IN
    IF gj.raised THEN Answered([s EXCEPT !.exc = <<gj.exc>>], news_error_response(gj.exc))
    ELSE
    LET tp == get(gj.data, "primary") IN
    IF tp.raised THEN Answered([s EXCEPT !.exc = <<tp.exc>>], news_error_response(tp.exc))
    ELSE
    LET topic == tp.value IN
    IF Falsy(topic)
    THEN Answered(s, [status |-> 400, json |-> [error |-> MsgTopicRequired]])
    ELSE IF ~all_agents
    THEN Answered(s, [status |-> 500,
                      json |-> [success |-> FALSE, error |-> MsgAgentsNotInitialized]])
    ELSE
    LET built == create_news_crew(topic, fail, msg)
        t == [s EXCEPT !.calls.build = @ + 1, !.calls.task = @ + built.ntasks]
    IN
    IF built.crew = << >>
    THEN Answered([t EXCEPT !.exc = <<msg>>],
                  [status |-> 500,
                   json |-> [success |-> FALSE, error |-> MsgFailedToCreateCrew]])
    ELSE [t EXCEPT !.pc = "kickoff", !.crew = built.crew, !.calls.kickoff = @ + 1]

\* generate_news after kickoff, were it to run the crew once more when it raised
generate_news_post_retry(s, o) ==
    IF o.raised /\ s.calls.kickoff < 2
    THEN [s EXCEPT !.calls.kickoff = @ + 1, !.started = << >>, !.completed = << >>]
    ELSE IF o.raised
    THEN Answered([s EXCEPT !.exc = <<o.exc>>], news_error_response(o.exc))
    ELSE Answered([s EXCEPT !.result = <<o.result>>], news_success_response(o.result))

\* generate_news from the return, or the exception, of crew.kickoff()
generate_news_post(s, o) ==
    IF o.raised
    THEN Answered([s EXCEPT !.exc = <<o.exc>>], news_error_response(o.exc))
    ELSE Answered([s EXCEPT !.result = <<o.result>>], news_success_response(o.result))

\* ------------------------------------------------------------ the handlers
\* the values of the handler's nondeterminism: which constructor call of the
\* builder raises (0: none), with which message.  Only a body with a primary
\* field gets as far as the builder.
BuildFailuresWith(b, msgs) ==
    IF b.kind = "object" /\ b.primary \notin {ABSENT, ""}
    THEN {[fail |-> 0, msg |-> << >>]}
            \cup [fail : 1..(Len(StagesOf(app)) + 1), msg : msgs]
    ELSE {[fail |-> 0, msg |-> << >>]}

BuildFailures(b) == BuildFailuresWith(b, ExcMsgs)

\* POST /generate_code arrives and runs up to crew.kickoff()
GenerateCodeWith(r, bodies, msgs) ==
    /\ app = "app"
    /\ boot = "serving"
    /\ rq[r].pc = "idle"
    /\ \E b \in bodies :
          \E gj \in get_json(b), f \in BuildFailuresWith(b, msgs) :
             rq' = [rq EXCEPT ![r] = generate_code_pre(b, gj, f.fail, f.msg)]
    /\ served' = << >>
    /\ UNCHANGED <<app, env, boot, api_key, llm, agents>>

GenerateCode(r) == GenerateCodeWith(r, CodeBodies, ExcMsgs)

\* POST /generate_news arrives and runs up to crew.kickoff()
GenerateNewsWith(r, bodies, msgs) ==
    /\ app = "app_v2"
    /\ boot = "serving"
    /\ rq[r].pc = "idle"
    /\ \E b \in bodies :
          \E gj \in get_json(b), f \in BuildFailuresWith(b, msgs) :
             rq' = [rq EXCEPT ![r] = generate_news_pre(b, gj, f.fail, f.msg)]
    /\ served' = << >>
    /\ UNCHANGED <<app, env, boot, api_key, llm, agents>>

GenerateNews(r) == GenerateNewsWith(r, NewsBodies, ExcMsgs)

\* ------------------------------------------------- executor: crew.kickoff
\* Process.sequential: kickoff begins with the first task of the list
StageStart(r) ==
    LET s == rq[r] IN
    /\ s.pc = "kickoff"
    /\ s.crew[1].process = "sequential"
    /\ s.started = << >>
    /\ Len(s.crew[1].tasks) > 0
    /\ rq' = [rq EXCEPT ![r].started = <<s.crew[1].tasks[1].name>>]
    /\ served' = << >>
    /\ UNCHANGED <<app, env, boot, api_key, llm, agents>>

\* the slot once its running task has ended with text out
Completed(s, out) ==
    [s EXCEPT !.completed = Append(@, s.started[Len(s.started)]),
              !.earlier = @ \cup {s.last[i] : i \in 1..Len(s.last)},
              !.last = <<out>>]

\* a task that is not the last one ends, its text becomes context of the later
\* tasks, and the executor goes on to the next task of the list
StageCompleteWith(r, outs) ==
    LET s == rq[r] IN
    /\ s.pc = "kickoff"
    /\ Len(s.started) = Len(s.completed) + 1
    /\ Len(s.started) < Len(s.crew[1].tasks)
    /\ \E out \in outs :
          rq' = [rq EXCEPT ![r] =
                    [Completed(s, out) EXCEPT !.started =
                        Append(@, s.crew[1].tasks[Len(s.started) + 1].name)]]
    /\ served' = << >>
    /\ UNCHANGED <<app, env, boot, api_key, llm, agents>>

StageComplete(r) == StageCompleteWith(r, StageOutputs)

\* the statements of the handler after crew.kickoff()
handler_post(s, o) ==
    IF app = "app" THEN generate_code_post(s, o) ELSE generate_news_post(s, o)

\* the last task ends with a text of outs: kickoff returns it, the handler answers
KickoffReturnsWith(r, outs) ==
    LET s == rq[r] IN
    /\ s.pc = "kickoff"
    /\ Len(s.started) = Len(s.completed) + 1
    /\ Len(s.started) = Len(s.crew[1].tasks)
    /\ \E out \in outs :
          \E o \in {x \in Outcomes(out) : ~x.raised} :
             rq' = [rq EXCEPT ![r] = handler_post(Completed(s, out), o)]
    /\ served' = << >>
    /\ UNCHANGED <<app, env, boot, api_key, llm, agents>>

KickoffReturns(r) == KickoffReturnsWith(r, StageOutputs)

\* the running task fails: no later task starts, kickoff raises, the texts of
\* the completed tasks are lost with the run and the handler answers
KickoffRaisesWith(r, msgs) ==
    LET s == rq[r] IN
    /\ s.pc = "kickoff"
    /\ Len(s.started) = Len(s.completed) + 1
    /\ \E o \in [raised : {TRUE}, exc : msgs] :
          rq' = [rq EXCEPT ![r] =
                    handler_post([s EXCEPT !.earlier = {}, !.last = << >>], o)]
    /\ served' = << >>
    /\ UNCHANGED <<app, env, boot, api_key, llm, agents>>

KickoffRaises(r) == KickoffRaisesWith(r, ExcMsgs)

\* the response is delivered and the serving thread takes the next request
Close(r) ==
    /\ rq[r].pc = "done"
    /\ rq' = [rq EXCEPT ![r] = Idle]
    /\ served' = << >>
    /\ UNCHANGED <<app, env, boot, api_key, llm, agents>>

\* ------------------------------------------------------------- GET /health
\* the health answer, were it to look at the agents
health_response_agents ==
    IF all_agents
    THEN [status |-> 200, json |-> [status |-> "healthy"]]
    ELSE [status |-> 503, json |-> [status |-> "unhealthy"]]

health_response ==
    IF app = "app"
    THEN [status |-> 200, json |-> [status |-> "healthy", service |-> "AI Code Generator"]]
    ELSE [status |-> 200, json |-> [status |-> "healthy"]]

Health ==
    /\ boot = "serving"
    /\ served' = <<[route |-> "/health", resp |-> health_response]>>
    /\ UNCHANGED <<app, env, boot, api_key, llm, agents, rq>>

Next ==
    \/ LoadKey
    \/ InitLLM
    \/ CreateAgents
    \/ \E r \in Reqs : GenerateCode(r)
    \/ \E r \in Reqs : GenerateNews(r)
    \/ \E r \in Reqs : StageStart(r)
    \/ \E r \in Reqs : StageComplete(r)
    \/ \E r \in Reqs : KickoffReturns(r)
    \/ \E r \in Reqs : KickoffRaises(r)
    \/ \E r \in Reqs : Close(r)
    \/ Health

Spec == Init /\ [][Next]_vars

\* ------------------------------------------------- the statistics alone
\* /generate_code is serving and the last task of request 1 is running; the
\* executor may return every text of Texts.
InitStats ==
    /\ app = "app"
    /\ env = "key"
    /\ boot = "serving"
    /\ api_key = "key"
    /\ llm = "set"
    /\ agents = CodeRoles
    /\ \E b \in {x \in CodeBodies : x.kind = "object"} :
          /\ ~Falsy(get(b, "primary").value)
          /\ rq = [r \in Reqs |->
                     IF r = 1
                     THEN [generate_code_pre(b, [raised |-> FALSE, data |-> b], 0, << >>)
                              EXCEPT !.started = CodeStages,
                                     !.completed = SubSeq(CodeStages, 1, Len(CodeStages) - 1),
                                     !.last = <<<<"a">>>>]
                     ELSE Idle]
    /\ served = << >>

NextStats == \E r \in Reqs : KickoffReturnsWith(r, Texts)

StatsSpec == InitStats /\ [][NextStats]_vars

\* ------------------------------------------------ the error texts alone
\* exception messages put together from fragments: "api" in either case and
\* split over two fragments, "MoDEL", both, and neither
Fragments ==
    { <<"a", "p">>, <<"i">>, <<"A", "P", "I">>, <<"M", "o">>, <<"D", "E", "L">>, <<"x">> }

RECURSIVE Joined(_)
Joined(n) ==
    IF n = 0 THEN {<< >>}
    ELSE LET shorter == Joined(n - 1)
         IN  shorter \cup {t \o f : t \in shorter, f \in Fragments}

FragmentMsgs == Joined(MaxFrags)

\* either service is serving and the first task of request 1 is running; the
\* executor may raise with every message of FragmentMsgs.
InitError ==
    /\ app \in {"app", "app_v2"}
    /\ env = "key"
    /\ boot = "serving"
    /\ api_key = "key"
    /\ llm = "set"
    /\ agents = IF app = "app" THEN CodeRoles ELSE NewsRoles
    /\ \E b \in (IF app = "app" THEN CodeBodies ELSE NewsBodies) :
          /\ b.kind = "object"
          /\ ~Falsy(get(b, "primary").value)
          /\ rq = [r \in Reqs |->
                     IF r = 1
                     THEN [(IF app = "app"
                            THEN generate_code_pre(b, [raised |-> FALSE, data |-> b], 0, << >>)
                            ELSE generate_news_pre(b, [raised |-> FALSE, data |-> b], 0, << >>))
                              EXCEPT !.started = <<StagesOf(app)[1]>>]
                     ELSE Idle]
    /\ served = << >>

NextError == \E r \in Reqs : KickoffRaisesWith(r, FragmentMsgs)

ErrorSpec == InitError /\ [][NextError]_vars

\* ------------------------------------------- requests in flight together
\* the threaded server runs a handler per request: NumConc requests are in
\* flight at a time and their steps interleave in any order.  The inputs:
\* bodies with and without a primary field, one exception message, the two
\* stage outputs for the final task and one for the tasks before it.
ConcBodies == JsonObjects({"", "chips", "tides"}, {ABSENT})

ConcMsgs == { <<"t","i","m","e","o","u","t">> }

ConcOutputs == { <<"a", " ", "b", "\n", "c">> }

InitConc ==
    /\ app \in {"app", "app_v2"}
    /\ env = "key"
    /\ boot = "serving"
    /\ api_key = "key"
    /\ llm = "set"
    /\ agents = IF app = "app" THEN CodeRoles ELSE NewsRoles
    /\ rq = [r \in ConcReqs |-> Idle]
    /\ served = << >>

NextConc ==
    \/ \E r \in ConcReqs : GenerateCodeWith(r, ConcBodies, ConcMsgs)
    \/ \E r \in ConcReqs : GenerateNewsWith(r, ConcBodies, ConcMsgs)
    \/ \E r \in ConcReqs : StageStart(r)
    \/ \E r \in ConcReqs : StageCompleteWith(r, ConcOutputs)
    \/ \E r \in ConcReqs : KickoffReturnsWith(r, StageOutputs)
    \/ \E r \in ConcReqs : KickoffRaisesWith(r, ConcMsgs)
    \/ \E r \in ConcReqs : Close(r)

ConcSpec == InitConc /\ [][NextConc]_vars

\* ================================================================ claims
Done(r) == rq[r].pc = "done"

\* the primary field of the body of request r is empty or missing
PrimaryMissing(r) ==
    \/ rq[r].body.kind \in {"nojson", "null", "array"}
    \/ rq[r].body.kind = "object" /\ rq[r].body.primary \in {ABSENT, ""}

RequiredMessage == IF app = "app" THEN MsgDescriptionRequired ELSE MsgTopicRequired

\* the executor failed in request r (kickoff was called and raised)
ExecutorFailed(r) == rq[r].calls.kickoff >= 1 /\ rq[r].exc /= << >>

ResultFields == {"generated_code", "article", "stats"}

\* C1: every request whose primary field is empty or missing (key absent,
\* empty string, or no JSON object at all) is answered 400 with the static
\* 'is required' message, and builds no task, calls no builder, no executor.
C1_Claim ==
    \A r \in Reqs :
        Done(r) /\ PrimaryMissing(r) =>
            /\ rq[r].resp[1].status = 400
            /\ rq[r].resp[1].json.error = RequiredMessage
            /\ rq[r].calls = NoCalls

\* C2: when the executor fails at a stage of a request with a valid input, the
\* handler returns exactly one response, the failure response (500, success
\* false, an error text) with no result field, and no text of a stage that
\* completed before the failure is part of it.
C2_FailureResponse ==
    \A r \in Reqs :
        ExecutorFailed(r) =>
            /\ Done(r)
            /\ Len(rq[r].resp) = 1
            /\ rq[r].resp[1].status = 500
            /\ DOMAIN rq[r].resp[1].json = {"success", "error"}
            /\ rq[r].resp[1].json.success = FALSE
            /\ Len(rq[r].resp[1].json.error) > 0

C2_NoPartialOutput ==
    \A r \in Reqs :
        rq[r].pc = "kickoff" /\ ExecutorFailed(r)' =>
            \A t \in rq[r].earlier \cup {rq[r].last[i] : i \in 1..Len(rq[r].last)} :
                t /= << >> => ~Contains(rq'[r].resp[1].json.error, t)

C2_Theorem == [](C2_FailureResponse) /\ [][C2_NoPartialOutput]_vars

\* stage 3 of the 8 stages of /generate_code failed after two stages had
\* completed with a text, and the request was answered
C2_Witness ==
    \E r \in Reqs :
        /\ app = "app"
        /\ ExecutorFailed(r)
        /\ Done(r)
        /\ Len(rq[r].started) = 3
        /\ Len(rq[r].completed) = 2

\* C3: when every stage succeeds, the reported result (generated_code resp.
\* article) is exactly the text of the final stage, whatever the earlier
\* stages returned, and the response has no field for an earlier stage.
C3_Theorem ==
    \A r \in Reqs :
        Done(r) /\ rq[r].resp[1].status = 200 =>
            /\ Len(rq[r].completed) = Len(StagesOf(app))
            /\ IF app = "app"
               THEN /\ rq[r].resp[1].json.generated_code = rq[r].last[1]
                    /\ DOMAIN rq[r].resp[1].json =
                          {"success", "generated_code", "project_description",
                           "requirements", "stats"}
                    /\ DOMAIN rq[r].resp[1].json.stats =
                          {"agents_used", "processing_phases", "word_count",
                           "lines_of_code", "processing_time"}
               ELSE /\ rq[r].resp[1].json.article = rq[r].last[1]
                    /\ DOMAIN rq[r].resp[1].json = {"success", "article"}

\* /generate_code succeeded and an earlier stage returned another text than
\* the final stage
C3_Witness ==
    \E r \in Reqs :
        /\ app = "app"
        /\ Done(r)
        /\ rq[r].resp[1].status = 200
        /\ rq[r].last[1] /= << >>
        /\ \E t \in rq[r].earlier : t /= rq[r].last[1]

\* the builder was called in request r and raised (app.py) or returned None
\* (app_v2.py): the handler answered without calling the executor
ConstructionFailed(r) == Done(r) /\ rq[r].calls.build >= 1 /\ rq[r].calls.kickoff = 0

TaskNames(crew) == [i \in 1..Len(crew.tasks) |-> crew.tasks[i].name]

\* the stage order the variants declare
DeclaredOrder ==
    IF app = "app"
    THEN <<"flowchart", "choice", "architecture", "code_generation",
           "design_enhancement", "error_fixing", "testing", "delivery">>
    ELSE <<"research", "writing", "cleaning", "merger">>

DeclaredRoles == IF app = "app" THEN CodeRoles ELSE NewsRoles

IsPrefix(a, b) == Len(a) <= Len(b) /\ SubSeq(b, 1, Len(a)) = a

WordStarts(t) == {i \in 1..Len(t) : ~IsSpace(t[i]) /\ (i = 1 \/ IsSpace(t[i - 1]))}

IsNewline(c) == c = "\n"

\* C5: in every successful /generate_code response word_count is the number
\* of whitespace-separated words of the result text and lines_of_code the
\* number of its newline characters, the empty and the all-whitespace texts
\* included.
C5_Theorem ==
    \A r \in Reqs :
        app = "app" /\ Done(r) /\ rq[r].resp[1].status = 200 =>
            LET text == rq[r].resp[1].json.generated_code
                stats == rq[r].resp[1].json.stats
            IN  /\ text = rq[r].result[1].raw
                /\ stats.word_count = Cardinality(WordStarts(text))
                /\ stats.lines_of_code = Len(SelectSeq(text, IsNewline))

\* the executor returned the text "\n \n": no word, two newlines
C5_Witness ==
    \E r \in Reqs :
        /\ app = "app"
        /\ Done(r)
        /\ rq[r].resp[1].status = 200
        /\ rq[r].resp[1].json.generated_code = <<"\n", " ", "\n">>
        /\ rq[r].resp[1].json.stats.word_count = 0
        /\ rq[r].resp[1].json.stats.lines_of_code = 2

StageRunning(r) == rq[r].pc = "kickoff" /\ Len(rq[r].started) = Len(rq[r].completed) + 1

\* C7: GET /health answers 200 'healthy' in every state of the running
\* service and changes nothing: it reads neither the credential nor the
\* agents nor any request.
C7_Healthy ==
    served /= << >> =>
        /\ served[1].route = "/health"
        /\ served[1].resp.status = 200
        /\ served[1].resp.json.status = "healthy"

C7_Available == boot = "serving" => ENABLED Health

C7_NoEffect ==
    served' /= << >> => UNCHANGED <<app, env, boot, api_key, llm, agents, rq>>

C7_Theorem == [](C7_Healthy /\ C7_Available) /\ [][C7_NoEffect]_vars

\* /health answered while a stage of a pipeline was running
C7_Witness ==
    /\ served /= << >>
    /\ served[1].resp.status = 200
    /\ \E r \in Reqs : StageRunning(r)

\* C8: without a non-empty GEMINI_API_KEY the import fails before the LLM and
\* any agent is created and nothing is ever served; the credential is not
\* changed once it is read.
C8_Credential ==
    (\/ boot \in {"llm", "agents", "serving"}
     \/ llm /= NONE
     \/ agents /= << >>
     \/ served /= << >>
     \/ \E r \in Reqs : rq[r] /= Idle)
        => api_key = env /\ api_key \notin {NONE, ""}

C8_FailFast == env \in {NONE, ""} => boot \in {"start", "failed"}

C8_ReadOnly == boot /= "start" => api_key' = api_key

C8_Theorem == [](C8_Credential /\ C8_FailFast) /\ [][C8_ReadOnly]_vars

\* the import ended at the credential check: the variable was set but empty
C8_Witness ==
    /\ env = ""
    /\ boot = "failed"
    /\ api_key = ""
    /\ llm = NONE
    /\ agents = << >>

\* C9: the stages of a pipeline run one at a time in the declared order: a
\* stage starts only when all started before it have completed, stages
\* complete in the order of the task list, and none starts after a failure.
C9_Sequential ==
    \A r \in Reqs :
        /\ IsPrefix(rq[r].completed, rq[r].started)
        /\ Len(rq[r].started) <= Len(rq[r].completed) + 1
        /\ IsPrefix(rq[r].started, DeclaredOrder)
        /\ rq[r].crew /= << >> => IsPrefix(rq[r].started, TaskNames(rq[r].crew[1]))
        /\ ExecutorFailed(r) => Len(rq[r].started) = Len(rq[r].completed) + 1

C9_NoStartAfterFailure ==
    \A r \in Reqs :
        ExecutorFailed(r) => rq'[r].started = rq[r].started \/ rq'[r] = Idle

C9_Theorem == [](C9_Sequential) /\ [][C9_NoStartAfterFailure]_vars

\* the last stage of /generate_code is running after the seven before it
\* completed
C9_Witness ==
    \E r \in Reqs :
        /\ app = "app"
        /\ StageRunning(r)
        /\ Len(rq[r].completed) = 7
        /\ rq[r].started[8] = "delivery"

\* C10: no retry: a request calls the builder at most once and the executor
\* at most once, and once the executor has failed the request is answered
\* with the failure and nothing of it runs again.
C10_AtMostOnce ==
    \A r \in Reqs :
        /\ rq[r].calls.build <= 1
        /\ rq[r].calls.kickoff <= rq[r].calls.build
        /\ ExecutorFailed(r) =>
              Done(r) /\ Len(rq[r].resp) = 1 /\ rq[r].resp[1].status = 500

C10_NoRetry ==
    \A r \in Reqs :
        ExecutorFailed(r) => rq'[r] = rq[r] \/ rq'[r] = Idle

C10_Theorem == [](C10_AtMostOnce) /\ [][C10_NoRetry]_vars

\* the first stage of /generate_news failed and the request was answered
C10_Witness ==
    \E r \in Reqs :
        /\ app = "app_v2"
        /\ ExecutorFailed(r)
        /\ Done(r)
        /\ rq[r].started = <<"research">>
        /\ rq[r].calls = [build |-> 1, task |-> 4, kickoff |-> 1]

\* the message has the word at some position, in any mix of upper and lower case
HasWord(e, word) ==
    \E i \in 0..(Len(e) - Len(word)) : \A j \in 1..Len(word) : e[i + j] \in word[j]

WordApi == <<{"a", "A"}, {"p", "P"}, {"i", "I"}>>

WordModel == <<{"m", "M"}, {"o", "O"}, {"d", "D"}, {"e", "E"}, {"l", "L"}>>

\* the response of request r was made by the except branch of its handler
FromException(r) ==
    Done(r) /\ rq[r].exc /= << >> /\ ~(app = "app_v2" /\ ConstructionFailed(r))

\* C12: the error text of a 500 response that /generate_news makes from an
\* exception is the connectivity text when the message has 'API' in any case,
\* else the configuration text when it has 'MODEL' in any case, else 'An error
\* occurred: ' and the message; a message with both gets the connectivity
\* text, and the two fixed texts stand alone, the message is not added to
\* them.  /generate_code always answers 'Failed to generate code: ' and the
\* message.
C12_Theorem ==
    \A r \in Reqs :
        FromException(r) =>
            LET e == rq[r].exc[1] IN
            /\ rq[r].resp[1].status = 500
            /\ rq[r].resp[1].json.error =
                  IF app = "app" THEN MsgFailedToGenerate \o e
                  ELSE IF HasWord(e, WordApi) THEN MsgApiConnection
                  ELSE IF HasWord(e, WordModel) THEN MsgModelConfiguration
                  ELSE MsgAnErrorOccurred \o e

\* /generate_news answered the connectivity text to a message that has both
\* 'MoDEL' and 'API'
C12_Witness ==
    \E r \in Reqs :
        /\ app = "app_v2"
        /\ FromException(r)
        /\ rq[r].exc[1] = <<"M", "o", "D", "E", "L", "A", "P", "I">>
        /\ rq[r].resp[1].json.error = MsgApiConnection

\* the news service is serving although create_agents returned None for the agents
AgentsMissing == app = "app_v2" /\ boot = "serving" /\ ~all_agents

\* C13: in the news service whose agents are None, every request with an
\* empty or missing topic is answered 400 with the 'is required' message, and
\* every request with a non-empty topic is answered 500, success false, with
\* the static 'Agents not properly initialized' message, and builds no task
\* and calls neither the builder nor the executor.
C13_Claim ==
    \A r \in Reqs :
        AgentsMissing /\ Done(r) =>
            IF PrimaryMissing(r)
            THEN /\ rq[r].resp[1].status = 400
                 /\ rq[r].resp[1].json.error = MsgTopicRequired
            ELSE /\ rq[r].resp[1].status = 500
                 /\ rq[r].resp[1].json.success = FALSE
                 /\ rq[r].resp[1].json.error = MsgAgentsNotInitialized
                 /\ rq[r].calls = NoCalls

\* what holds of C13: the same for the requests whose body is a JSON object
C13_ObjectBodies ==
    \A r \in Reqs :
        AgentsMissing /\ Done(r) /\ rq[r].body.kind = "object" =>
            IF rq[r].body.primary \in {ABSENT, ""}
            THEN /\ rq[r].resp[1].status = 400
                 /\ rq[r].resp[1].json.error = MsgTopicRequired
                 /\ rq[r].calls = NoCalls
            ELSE /\ rq[r].resp[1].status = 500
                 /\ rq[r].resp[1].json.success = FALSE
                 /\ rq[r].resp[1].json.error = MsgAgentsNotInitialized
                 /\ rq[r].calls = NoCalls

\* what holds of C13: the agents stay None, no step creates them again
C13_NeverLeft == [][AgentsMissing => AgentsMissing']_vars

\* a request with a topic was answered by the service without agents
C13_Reached ==
    \E r \in Reqs :
        /\ AgentsMissing
        /\ Done(r)
        /\ rq[r].body.kind = "object"
        /\ rq[r].body.primary = "tides"
        /\ rq[r].resp[1].json.error = MsgAgentsNotInitialized

\* the error text the except branch makes from the exception of slot s alone
OwnErrorText(s) ==
    IF app = "app" THEN MsgFailedToGenerate \o s.exc[1]
    ELSE IF s.calls.build >= 1 /\ s.calls.kickoff = 0 THEN MsgFailedToCreateCrew
    ELSE IF HasWord(s.exc[1], WordApi) THEN MsgApiConnection
    ELSE IF HasWord(s.exc[1], WordModel) THEN MsgModelConfiguration
    ELSE MsgAnErrorOccurred \o s.exc[1]

\* C11 (pipeline): a request that is being executed has called its builder
\* once and runs a pipeline of its own, whose tasks are the declared ones and
\* carry the input of this request.
C11_OwnPipeline ==
    \A r \in ConcReqs :
        rq[r].pc = "kickoff" =>
            /\ rq[r].calls = [build |-> 1, task |-> Len(DeclaredOrder), kickoff |-> 1]
            /\ Len(rq[r].crew) = 1
            /\ TaskNames(rq[r].crew[1]) = DeclaredOrder
            /\ \A i \in 1..Len(rq[r].crew[1].tasks) :
                  \A j \in 1..Len(rq[r].crew[1].tasks[i].inputs) :
                     rq[r].crew[1].tasks[i].inputs[j] =
                        get(rq[r].body, IF j = 1 THEN "primary" ELSE "secondary").value

\* C11 (response): the response of a request is the one its own input and the
\* outcome of its own run give: the failure response with its own exception,
\* or the success response with the text of its own final stage, or the
\* validation failure of its own body; nothing of another request is in it.
C11_OwnResponse ==
    \A r \in ConcReqs :
        Done(r) =>
            LET s == rq[r]
                resp == s.resp[1]
            IN
            /\ Len(s.resp) = 1
            /\ IF s.exc /= << >>
               THEN /\ resp.status = 500
                    /\ resp.json = [success |-> FALSE, error |-> OwnErrorText(s)]
               ELSE IF s.result /= << >>
               THEN /\ resp.status = 200
                    /\ resp.json.success = TRUE
                    /\ s.last = <<str(s.result[1])>>
                    /\ IF app = "app"
                       THEN /\ resp.json.generated_code = s.last[1]
                            /\ resp.json.project_description = s.body.primary
                            /\ resp.json.requirements = get(s.body, "secondary").value
                       ELSE resp.json.article = s.last[1]
               ELSE IF AgentsMissing /\ ~PrimaryMissing(r)
               THEN /\ resp.status = 500
                    /\ resp.json = [success |-> FALSE, error |-> MsgAgentsNotInitialized]
               ELSE /\ resp.status = 400
                    /\ resp.json = [error |-> RequiredMessage]

\* C11 (failures): a request is answered with a failure only for a cause of
\* its own: its own exception, its own empty input, or the missing agents.
C11_FailureIsOwn ==
    \A r \in ConcReqs :
        Done(r) =>
            (rq[r].resp[1].status = 200
                <=> rq[r].exc = << >> /\ ~PrimaryMissing(r) /\ ~AgentsMissing)

\* C11 (shared state): a step changes the slot of one request and nothing
\* else; the agents, the LLM and the credential are read only.
C11_NoSharedWrite ==
    /\ UNCHANGED <<app, env, boot, api_key, llm, agents>>
    /\ \A r1, r2 \in ConcReqs :
          r1 /= r2 /\ rq'[r1] /= rq[r1] => rq'[r2] = rq[r2]

\* C11: requests in flight together are independent: each runs a pipeline of
\* its own, no step writes state shared between requests, and each response
\* is the one the request's own input and own run give, so that a failure of
\* one request neither fails another nor shows in another's response.
C11_Theorem ==
    /\ [](C11_OwnPipeline /\ C11_OwnResponse /\ C11_FailureIsOwn)
    /\ [][C11_NoSharedWrite]_vars

\* two requests of /generate_code with different inputs were in flight
\* together: one failed at its second stage and got the failure response,
\* the other ran all its stages and got its own text
C11_Witness ==
    \E r1, r2 \in ConcReqs :
        /\ app = "app"
        /\ Done(r1) /\ Done(r2)
        /\ rq[r1].body.primary /= rq[r2].body.primary
        /\ ExecutorFailed(r1)
        /\ Len(rq[r1].started) = 2
        /\ rq[r1].resp[1].status = 500
        /\ rq[r2].resp[1].status = 200
        /\ rq[r2].result /= << >>
        /\ rq[r2].resp[1].json.generated_code = <<"a", " ", "b", "\n", "c">>

====
